---- MODULE Spec2Model ----
(***************************************************************************)
(* A model of uscf-scraper.py: the retrying fetch (fetch_html), the        *)
(* traversal controller (main, parse_crosstable, find_all_sections_link)   *)
(* and the game-table extractor (parse_games_in_table,                     *)
(* parse_player_specific_page).                                            *)
(*                                                                         *)
(* Text is a sequence of one-character strings, so that the regular        *)
(* expressions and str.split of the source are computed character by       *)
(* character.  "nbsp" stands for the character U+00A0.                     *)
(***************************************************************************)
EXTENDS Integers, Sequences, FiniteSets, TLC

(***************************************************************************)
(* Bounds of the model.                                                    *)
(***************************************************************************)
\* rows of a generated Games table (nesting arrangements)
MaxRows == 3
\* tables nested inside a generated Games table
MaxNested == 2

(***************************************************************************)
(* Characters and text helpers.                                            *)
(***************************************************************************)
ResultLetters == {"W", "L", "D", "H", "w", "l", "d", "h"}

DigitChars == {"0", "1", "2", "3", "4", "5", "6", "7", "8", "9"}

\* what \s matches once "\xa0" has been replaced by " " (line 179)
IsSpace(c) == c = " "

RECURSIVE Flatten(_)
Flatten(ss) == IF ss = <<>> THEN <<>> ELSE Head(ss) \o Flatten(Tail(ss))

RECURSIVE SortedSeq(_)
SortedSeq(S) ==
    IF S = {} THEN <<>>
    ELSE LET m == CHOOSE x \in S : \A y \in S : x <= y
         IN  <<m>> \o SortedSeq(S \ {m})

HasPrefix(s, p) == Len(s) >= Len(p) /\ SubSeq(s, 1, Len(p)) = p

\* c2.replace("\xa0", " ")
ReplaceNbsp(s) == [i \in 1..Len(s) |-> IF s[i] = "nbsp" THEN " " ELSE s[i]]

\* re.sub(r"\s+", " ", c2): every run of white space becomes one space
RECURSIVE CollapseSpaces(_)
CollapseSpaces(s) ==
    IF Len(s) <= 1 THEN s
    ELSE IF IsSpace(s[1]) /\ IsSpace(s[2]) THEN CollapseSpaces(Tail(s))
    ELSE <<s[1]>> \o CollapseSpaces(Tail(s))

\* str.strip()
RECURSIVE Strip(_)
Strip(s) ==
    IF s = <<>> THEN s
    ELSE IF IsSpace(s[1]) THEN Strip(Tail(s))
    ELSE IF IsSpace(s[Len(s)]) THEN Strip(SubSeq(s, 1, Len(s) - 1))
    ELSE s

\* lines 178-181: the text of one cell (the cell holds no markup of its own)
CellText(c) == Strip(CollapseSpaces(ReplaceNbsp(c.text)))

\* str.split()[0] of a non-empty stripped text: up to the first white space
FirstToken(s) ==
    LET stops == {i \in 1..Len(s) : IsSpace(s[i])}
    IN  IF stops = {} THEN s
        ELSE SubSeq(s, 1, (CHOOSE i \in stops : \A j \in stops : i <= j) - 1)

\* re.sub(r"^R:\s*", "", txt, flags=re.IGNORECASE)
RECURSIVE DropLeadingSpaces(_)
DropLeadingSpaces(s) ==
    IF s # <<>> /\ IsSpace(s[1]) THEN DropLeadingSpaces(Tail(s)) ELSE s

StripRPrefix(s) ==
    IF Len(s) >= 2 /\ s[1] \in {"R", "r"} /\ s[2] = ":"
    THEN DropLeadingSpaces(SubSeq(s, 3, Len(s)))
    ELSE s

\* re.match(r"^(.*)\((\d+)\)", opp_name): the greedy .* takes the last "("
\* that is followed by digits and ")"
IdSpans(s) ==
    {p \in (1..Len(s)) \X (1..Len(s)) :
        /\ p[1] + 1 < p[2]
        /\ s[p[1]] = "("
        /\ s[p[2]] = ")"
        /\ \A k \in (p[1] + 1)..(p[2] - 1) : s[k] \in DigitChars}

ExtractId(s) ==
    IF IdSpans(s) = {} THEN [name |-> s, id |-> <<>>]
    ELSE LET p == CHOOSE q \in IdSpans(s) : \A r \in IdSpans(s) : r[1] <= q[1]
         IN  [name |-> Strip(SubSeq(s, 1, p[1] - 1)),
              id   |-> SubSeq(s, p[1] + 1, p[2] - 1)]

(***************************************************************************)
(* parse_games_in_table, one row.                                          *)
(* A cell is [width, rowspan, text]: the values of the two attributes of   *)
(* its opening tag (<<>> when absent) and its raw text.                    *)
(***************************************************************************)
\* lines 166-172: both searches are unanchored on the right, so an attribute
\* value that only begins with 1 (or with 20) matches too
IsFiller(c) == HasPrefix(c.width, <<"1">>) /\ HasPrefix(c.rowspan, <<"2", "0">>)

\* lines 164-173
RemoveFiller(tds) == SelectSeq(tds, LAMBDA c : ~IsFiller(c))

\* lines 176-182
TextCols(tds) == [i \in 1..Len(RemoveFiller(tds)) |-> CellText(RemoveFiller(tds)[i])]

\* line 186: re.match(r"^[WLDH]\s*\d*$", col0, re.IGNORECASE)
ResultPattern(s) ==
    /\ Len(s) >= 1
    /\ s[1] \in ResultLetters
    /\ \E k \in 1..Len(s) :
          /\ \A i \in 2..k : IsSpace(s[i])
          /\ \A i \in (k + 1)..Len(s) : s[i] \in DigitChars

\* lines 161-162, 184-186
RowIsGame(tds) ==
    /\ tds # <<>>
    /\ Len(TextCols(tds)) = 6
    /\ ResultPattern(TextCols(tds)[1])

\* line 198
ResultOf(col0) == FirstToken(col0)

\* lines 187-205
GameOf(tds) ==
    LET t == TextCols(tds)
    IN  [result    |-> ResultOf(t[1]),
         color     |-> t[2],
         opp_score |-> t[3],
         opp_pre   |-> StripRPrefix(t[4]),
         opp_post  |-> StripRPrefix(t[5]),
         opp_name  |-> ExtractId(t[6]).name,
         opp_id    |-> ExtractId(t[6]).id]

(***************************************************************************)
(* A Games table with the tables nested in it.  Table 0 is the outer       *)
(* table; tables 1..Len(T.host) are nested, table t sitting in a cell of   *)
(* row T.host[t].  Row r belongs to table T.rows[r].owner and has the      *)
(* cells T.rows[r].cells.  Within a table the rows stand in index order,   *)
(* within a row the nested tables stand in index order.                    *)
(***************************************************************************)
RowsOfTable(T, t) == SortedSeq({r \in 1..Len(T.rows) : T.rows[r].owner = t})

TablesInRow(T, r) == SortedSeq({t \in 1..Len(T.host) : T.host[t] = r})

\* games_table.find_all("tr", recursive=True), line 156: every row below the
\* table, those of nested tables included, in document order
RECURSIVE find_all_tr(_, _)
find_all_tr(T, t) ==
    LET rs == RowsOfTable(T, t)
    IN  Flatten([i \in 1..Len(rs) |->
            <<rs[i]>> \o
            LET ts == TablesInRow(T, rs[i])
            IN  Flatten([j \in 1..Len(ts) |-> find_all_tr(T, ts[j])])])

\* games_table.find_all("table", recursive=True), line 286
RECURSIVE find_all_table(_, _)
find_all_table(T, t) ==
    LET rs == RowsOfTable(T, t)
    IN  Flatten([i \in 1..Len(rs) |->
            LET ts == TablesInRow(T, rs[i])
            IN  Flatten([j \in 1..Len(ts) |->
                    <<ts[j]>> \o find_all_table(T, ts[j])])])

\* lines 159-207: the rows (by index) that are appended as games
RECURSIVE GameRowsIn(_, _)
GameRowsIn(T, rs) ==
    IF rs = <<>> THEN <<>>
    ELSE (IF RowIsGame(T.rows[Head(rs)].cells) THEN <<Head(rs)>> ELSE <<>>)
         \o GameRowsIn(T, Tail(rs))

\* lines 155-208
parse_games_in_table(T, t) ==
    LET rs == GameRowsIn(T, find_all_tr(T, t))
    IN  [i \in 1..Len(rs) |-> GameOf(T.rows[rs[i]].cells)]

\* lines 210-252, abstracted to its outcome: page.rating is the (pre, post)
\* pair of the first "Rating" row whose value matches, or two empty strings
parse_player_rating_table(page) == page.rating

\* lines 284-290: the extractor run on every nested table, concatenated
Pass2Games(T) ==
    LET sub_tab == find_all_table(T, 0)
    IN  Flatten([i \in 1..Len(sub_tab) |-> parse_games_in_table(T, sub_tab[i])])

\* a faulty GamesOfPage: pass 2 is run and added whatever pass 1 found
GamesBothPasses(page) ==
    IF ~page.has_games THEN <<>>
    ELSE parse_games_in_table(page.table, 0) \o Pass2Games(page.table)

\* lines 268-299: no Games table, else pass 1, else pass 2
GamesOfPage(page) ==
    IF ~page.has_games THEN <<>>
    ELSE IF parse_games_in_table(page.table, 0) # <<>>
         THEN parse_games_in_table(page.table, 0)
         ELSE Pass2Games(page.table)

\* lines 254-299
parse_player_specific_page(page) ==
    [player_pre_rating  |-> parse_player_rating_table(page)[1],
     player_post_rating |-> parse_player_rating_table(page)[2],
     games              |-> GamesOfPage(page)]

(***************************************************************************)
(* The pages the extractor is run on.                                      *)
(***************************************************************************)
Txt(c) == [width |-> <<>>, rowspan |-> <<>>, text |-> c]

NoRating == <<"", "">>

\* a game row whose opponent is told apart by the length of the name
GameCells(r) ==
    << Txt(<<"W", " ", "1">>), Txt(<<"B">>), Txt(<<"1", ".", "0">>),
       Txt(<<"R", ":", " ", "1", "2">>), Txt(<<"R", ":", " ", "1", "3">>),
       Txt([i \in 1..r |-> "X"] \o <<" ", "(", "7", ")">>) >>

\* a heading or layout row
HeadingCells == << Txt(<<"G", "a", "m", "e", "s">>) >>

\* every arrangement of n rows over the outer table and k nested tables, up
\* to renaming: a nested table sits in a row of a table of lower index, and
\* the rows are numbered table by table
Arrangements(n, k) ==
    { a \in [own : [1..n -> 0..k], host : [1..k -> 1..n]] :
        /\ \A t \in 1..k : a.own[a.host[t]] < t
        /\ \A r \in 1..(n - 1) : a.own[r] <= a.own[r + 1] }

NestedTable(n, a, mt) ==
    [rows |-> [r \in 1..n |-> [owner |-> a.own[r],
                               cells |-> IF mt[r] THEN GameCells(r)
                                                  ELSE HeadingCells]],
     host |-> a.host]

\* texts of column 0
Col0Choices ==
    { <<"W">>, <<"w">>, <<"W", " ", "1">>, <<"W", "1">>, <<"W", "nbsp", "1">>,
      <<"L", " ", " ", "1", "2">>, <<" ", "D", " ">>, <<"H">>, <<"d", "2">>,
      <<"X">>, <<"W", "a">>, <<"1">>, <<>>, <<"W", " ", "1", " ", "2">> }

\* width and rowspan of a cell that may or may not count as filler
AttrChoices ==
    { <<<<"1">>, <<"2", "0">>>>, <<<<"1", "0">>, <<"2", "0">>>>,
      <<<<"1">>, <<"2", "0", "0">>>>, <<<<"2">>, <<"2", "0">>>>,
      <<<<"1">>, <<>>>>, <<<<>>, <<"2", "0">>>> }

DataCells(n, col0) ==
    [i \in 1..n |-> IF i = 1 THEN Txt(col0) ELSE GameCells(1)[IF i <= 6 THEN i ELSE 2]]

InsertAt(s, p, x) == SubSeq(s, 1, p - 1) \o <<x>> \o SubSeq(s, p, Len(s))

\* rows of 5 to 7 data cells, with at most one cell carrying the attributes
ProbeRows ==
    UNION { {DataCells(n, c0)} \cup
            { InsertAt(DataCells(n, c0), p,
                       [width |-> a[1], rowspan |-> a[2], text |-> <<>>]) :
                p \in 1..(n + 1), a \in AttrChoices }
          : n \in 5..7, c0 \in Col0Choices }

\* a flat table: the row under test, then a plain game row
RowTable(pr) ==
    [rows |-> << [owner |-> 0, cells |-> pr],
                 [owner |-> 0, cells |-> GameCells(2)] >>,
     host |-> <<>>]

EmptyTable == [rows |-> <<>>, host |-> <<>>]

\* the parse of an empty body
EmptyPage == [has_games |-> FALSE, table |-> EmptyTable, rating |-> NoRating]

GamesPage(T) == [has_games |-> TRUE, table |-> T, rating |-> NoRating]

(***************************************************************************)
(* Links.  A link is [page, eid, sec, pid]: page?eid<sec>-pid, with sec "" *)
(* or a section marker such as ".0" or ".1".  No identifier of the model   *)
(* is a substring of another, so "player_id in href" is equality on pid.   *)
(***************************************************************************)
NoLink == [page |-> "", eid |-> "", sec |-> "", pid |-> ""]

PlayerId == "12641216"

OtherPlayerId == "30000003"

XMain(e, s) == [page |-> "XtblMain.php", eid |-> e, sec |-> s, pid |-> PlayerId]

XPlr(e, p) == [page |-> "XtblPlr.php", eid |-> e, sec |-> "", pid |-> p]

\* line 40, line 352
main_url == [page |-> "MbrDtlTnmtHst.php", eid |-> "", sec |-> "", pid |-> PlayerId]

\* line 119: re.search(r"XtblMain\.php\?(\d+)-(\d+)", xlink) needs the event
\* digits to be followed by "-" at once: a link with a section marker fails
SectionPattern(xlink) == xlink.page = "XtblMain.php" /\ xlink.sec = ""

\* lines 118-127: the value does not depend on the document searched
find_all_sections_link(xlink) ==
    IF ~SectionPattern(xlink) THEN NoLink
    ELSE [page |-> "XtblMain.php", eid |-> xlink.eid, sec |-> ".0", pid |-> xlink.pid]

\* lines 316-320 and 334-338: the first href that names XtblPlr.php and the player
RECURSIVE UserLinkIn(_)
UserLinkIn(hrefs) ==
    IF hrefs = <<>> THEN NoLink
    ELSE IF Head(hrefs).page = "XtblPlr.php" /\ Head(hrefs).pid = PlayerId
         THEN Head(hrefs)
         ELSE UserLinkIn(Tail(hrefs))

(***************************************************************************)
(* Summaries: a dict is a function on its keys.                            *)
(***************************************************************************)
EmptyDict == [k \in {} |-> ""]

\* dict.get(k, "")
Get(d, k) == IF k \in DOMAIN d THEN d[k] ELSE ""

\* data[lbl] = val
Put(d, k, v) == [x \in DOMAIN d \cup {k} |-> IF x = k THEN v ELSE d[x]]

\* lines 129-153 on a document whose main table has the label/value rows
\* doc.summary_rows (labels lower case, locations already "CITY, ST")
RECURSIVE SummaryOfRows(_, _)
SummaryOfRows(d, rows) ==
    IF rows = <<>> THEN d
    ELSE SummaryOfRows(Put(d, Head(rows)[1], Head(rows)[2]), Tail(rows))

parse_summary_table(doc) == SummaryOfRows(EmptyDict, doc.summary_rows)

\* a faulty MergeSummary: the crosstable's own value wins a collision
MergeKeepFirst(summary, summ2) ==
    [k \in DOMAIN summary \cup DOMAIN summ2 |->
        IF k \in DOMAIN summary THEN summary[k] ELSE summ2[k]]

\* lines 331-332: for k, v in summ2.items(): data["summary"][k] = v
MergeSummary(summary, summ2) ==
    [k \in DOMAIN summary \cup DOMAIN summ2 |->
        IF k \in DOMAIN summ2 THEN summ2[k] ELSE summary[k]]

(***************************************************************************)
(* Documents.  A body is what the parsers find in it: the event rows of a  *)
(* history page, the summary rows and hrefs of a crosstable, the player    *)
(* page.  The empty string parses to nothing.                              *)
(***************************************************************************)
EmptyBody == [events |-> <<>>, summary_rows |-> <<>>, hrefs |-> <<>>, page |-> EmptyPage]

\* events a history page may list
MaxEvents == 2

\* values of --max-retries
MaxRetries == 2

Event(y, x) ==
    [end_date |-> <<y, "-02-03">>, event_id |-> y \o "02031111",
     reg_before |-> "1200", reg_after |-> "1210", xlink |-> x]

EventChoices ==
    { Event("2023", XMain("202302031111", "")),
      Event("2024", XMain("202302031111", "")),
      Event("2024", XMain("202302031111", ".0")),
      Event("2024", XMain("202402031111", ".1")),
      Event("2024", NoLink) }

EventLists == UNION {[1..n -> EventChoices] : n \in 0..MaxEvents}

HistoryBodies == {[EmptyBody EXCEPT !.events = es] : es \in EventLists}

\* a crosstable with no link to the player, and one with it
CrosstableBodies ==
    { [EmptyBody EXCEPT !.summary_rows = << <<"location", "LAS VEGAS, NV">>,
                                            <<"chief td", "A TD">> >>,
                        !.hrefs = << XPlr("202302031111", OtherPlayerId) >>],
      [EmptyBody EXCEPT !.summary_rows = << <<"location", "RENO, NV">>,
                                            <<"event date(s)", "2024-02-03">> >>,
                        !.hrefs = << XPlr("202302031111", OtherPlayerId),
                                     XPlr("202302031111", PlayerId) >>] }

OneGameTable == [rows |-> << [owner |-> 0, cells |-> GameCells(1)] >>, host |-> <<>>]

PlayerBodies ==
    { EmptyBody,
      [EmptyBody EXCEPT !.page = [has_games |-> TRUE, table |-> OneGameTable,
                                  rating |-> <<"1294", "1451">>]] }

BodiesFor(role) ==
    CASE role = "history" -> HistoryBodies
      [] role = "plr"     -> PlayerBodies
      [] OTHER            -> CrosstableBodies

\* line 83-116, abstracted to its outcome: one event per data row of >= 5 cells
parse_tournament_list(doc) == doc.events

\* line 357: e["end_date"].startswith(filter_year), filter_year a whole year
\* (None when "")
FilterYear(es, fy) == IF fy = "" THEN es ELSE SelectSeq(es, LAMBDA e : e.end_date[1] = fy)

(***************************************************************************)
(* The run: main, parse_crosstable and fetch_html.                         *)
(***************************************************************************)
VARIABLES
    max_retries,  \* --max-retries
    filter_year,  \* --year
    pc,           \* where main stands
    f,            \* the running call of fetch_html
    events,       \* main: the filtered tournament list
    i,            \* main: the event being parsed, from 1
    visited,      \* main: the visited set
    all_data,     \* main: one row per event
    per_game,     \* main: one row per game
    data,         \* parse_crosstable: data
    userlink,     \* parse_crosstable: userlink
    csv,          \* the CSV file: whether it was written, and its rows
    fetch_log,    \* history: every call of fetch_html, with the event it was made for
    calls         \* history: what came back for each event parsed

rvars == <<max_retries, filter_year, pc, f, events, i, visited, all_data, per_game,
           data, userlink, csv, fetch_log, calls>>

\* line 303
EmptyData ==
    [summary |-> EmptyDict, player_games |-> <<>>,
     player_rating_pre |-> "", player_rating_post |-> ""]

NoCsv == [written |-> FALSE, rows |-> <<>>]

NoCall == [role |-> "", url |-> NoLink, status |-> "idle", outcomes |-> <<>>,
           body |-> EmptyBody, err |-> ""]

RInit ==
    /\ max_retries \in 0..MaxRetries
    /\ filter_year \in {"", "2024"}
    /\ pc = "start"
    /\ f = NoCall
    /\ events = <<>>
    /\ i = 1
    /\ visited = {}
    /\ all_data = <<>>
    /\ per_game = <<>>
    /\ data = EmptyData
    /\ userlink = NoLink
    /\ csv = NoCsv
    /\ fetch_log = <<>>
    /\ calls = <<>>

\* lines 42-43: fetch_html is entered
CallFetch(role, url) ==
    /\ f' = [NoCall EXCEPT !.role = role, !.url = url, !.status = "loop"]
    /\ fetch_log' = Append(fetch_log, [url |-> url, role |-> role,
                                       ev |-> IF role = "history" THEN 0 ELSE i])
    /\ pc' = "fetch"

\* line 43: the loop goes on while attempt <= max_retries
MoreAttempts(made, retries) == made < retries

\* lines 47-49: the request succeeds and its text is returned
AttemptSucceeds ==
    /\ pc = "fetch" /\ f.status = "loop"
    /\ MoreAttempts(Len(f.outcomes), max_retries)
    /\ \E b \in BodiesFor(f.role) :
          f' = [f EXCEPT !.outcomes = Append(@, "ok"), !.status = "returned", !.body = b]
    /\ UNCHANGED <<max_retries, filter_year, pc, events, i, visited, all_data,
                   per_game, data, userlink, csv, fetch_log, calls>>

\* lines 50-57: the request fails with a Timeout or another
\* RequestException (all that requests raises); the last attempt re-raises
AttemptFails ==
    /\ pc = "fetch" /\ f.status = "loop"
    /\ MoreAttempts(Len(f.outcomes), max_retries)
    /\ \E e \in {"Timeout", "RequestException"} :
          f' = [f EXCEPT !.outcomes = Append(@, e),
                         !.status = IF Len(f.outcomes) + 1 = max_retries
                                    THEN "raised" ELSE "loop",
                         !.err = IF Len(f.outcomes) + 1 = max_retries THEN e ELSE ""]
    /\ UNCHANGED <<max_retries, filter_year, pc, events, i, visited, all_data,
                   per_game, data, userlink, csv, fetch_log, calls>>

\* line 58: the loop ends without a return or a raise
LoopFallsThrough ==
    /\ pc = "fetch" /\ f.status = "loop"
    /\ ~MoreAttempts(Len(f.outcomes), max_retries)
    /\ f' = [f EXCEPT !.status = "returned", !.body = EmptyBody]
    /\ UNCHANGED <<max_retries, filter_year, pc, events, i, visited, all_data,
                   per_game, data, userlink, csv, fetch_log, calls>>

\* lines 352-353
StartMain ==
    /\ pc = "start"
    /\ CallFetch("history", main_url)
    /\ UNCHANGED <<max_retries, filter_year, events, i, visited, all_data,
                   per_game, data, userlink, csv, calls>>

\* lines 355-363
AfterHistory ==
    /\ pc = "fetch" /\ f.status = "returned" /\ f.role = "history"
    /\ events' = FilterYear(parse_tournament_list(f.body), filter_year)
    /\ visited' = {}
    /\ all_data' = <<>>
    /\ per_game' = <<>>
    /\ i' = 1
    /\ pc' = "loop"
    /\ f' = NoCall
    /\ UNCHANGED <<max_retries, filter_year, data, userlink, csv, fetch_log, calls>>

\* lines 366-380, 401-409: the row of an event, given what parse_crosstable returned
Row(ev, cd) ==
    [player_id  |-> PlayerId,
     end_date   |-> ev.end_date,
     event_id   |-> ev.event_id,
     reg_before |-> IF cd.player_rating_pre # "" THEN cd.player_rating_pre
                                                  ELSE ev.reg_before,
     reg_after  |-> IF cd.player_rating_post # "" THEN cd.player_rating_post
                                                   ELSE ev.reg_after,
     location   |-> Get(cd.summary, "location"),
     event_dates |-> Get(cd.summary, "event date(s)"),
     chief_td   |-> Get(cd.summary, "chief td")]

\* lines 412-431
GameRows(ev, cd) ==
    [k \in 1..Len(cd.player_games) |->
        [event_id        |-> ev.event_id,
         result          |-> cd.player_games[k].result,
         color           |-> cd.player_games[k].color,
         my_rating_pre   |-> cd.player_rating_pre,
         my_rating_post  |-> cd.player_rating_post,
         opp_id          |-> cd.player_games[k].opp_id,
         opp_name        |-> cd.player_games[k].opp_name,
         opp_rating_pre  |-> cd.player_games[k].opp_pre,
         opp_rating_post |-> cd.player_games[k].opp_post,
         location        |-> Get(cd.summary, "location"),
         event_dates     |-> Get(cd.summary, "event date(s)")]]

\* a faulty AppendRow: a row only for an event that has games
AppendRowIfGames(rows, ev, cd) ==
    IF cd.player_games = <<>> THEN rows ELSE Append(rows, Row(ev, cd))

\* line 432
AppendRow(rows, ev, cd) == Append(rows, Row(ev, cd))

\* lines 401-432: parse_crosstable has returned cd (or there was no link);
\* the row is appended and the loop goes to the next event
FinishEvent(cd, ul, how) ==
    /\ all_data' = AppendRow(all_data, events[i], cd)
    /\ per_game' = per_game \o GameRows(events[i], cd)
    /\ calls' = Append(calls, [how |-> how, cdata |-> cd, userlink |-> ul])
    /\ i' = i + 1
    /\ pc' = "loop"
    /\ f' = NoCall

\* a faulty AlreadyVisited: no link is ever found in the set
NeverVisited(xlink, seen) == FALSE

\* line 304
AlreadyVisited(xlink, seen) == xlink \in seen

\* lines 364-400, 301-310: the next event; parse_crosstable is entered when
\* the event has a link, and returns at once when the link is visited
LoopEvent ==
    /\ pc = "loop" /\ i <= Len(events)
    /\ UNCHANGED <<max_retries, filter_year, events, csv>>
    /\ IF events[i].xlink = NoLink
       THEN /\ FinishEvent(EmptyData, NoLink, "nolink")
            /\ UNCHANGED <<visited, data, userlink, fetch_log>>
       ELSE IF AlreadyVisited(events[i].xlink, visited)
       THEN /\ data' = EmptyData
            /\ userlink' = NoLink
            /\ FinishEvent(EmptyData, NoLink, "visited")
            /\ UNCHANGED <<visited, fetch_log>>
       ELSE /\ data' = EmptyData
            /\ userlink' = NoLink
            /\ visited' = visited \cup {events[i].xlink}
            /\ CallFetch("xtbl", events[i].xlink)
            /\ UNCHANGED <<all_data, per_game, calls, i>>

\* a faulty TryZero: the variant is fetched whether visited or not
TryZeroUnchecked(zero, seen) == zero # NoLink

\* line 325: if zero and zero not in visited
TryZero(zero, seen) == zero # NoLink /\ zero \notin seen

\* a faulty FetchPlayer: a player page is fetched for the empty link too
FetchPlayerAlways(ul) == TRUE

\* line 340: if userlink
FetchPlayer(ul) == ul # NoLink

\* lines 311-348, the crosstable document has come back
AfterCrosstable ==
    /\ pc = "fetch" /\ f.status = "returned" /\ f.role = "xtbl"
    /\ UNCHANGED <<max_retries, filter_year, events, csv>>
    /\ LET summ == parse_summary_table(f.body)
           ul   == UserLinkIn(f.body.hrefs)
           zero == find_all_sections_link(events[i].xlink)
           cd   == [EmptyData EXCEPT !.summary = summ]
       IN  /\ data' = cd
           /\ userlink' = ul
           /\ IF ul = NoLink /\ TryZero(zero, visited)
              THEN /\ visited' = visited \cup {zero}
                   /\ CallFetch("zero", zero)
                   /\ UNCHANGED <<all_data, per_game, calls, i>>
              ELSE IF FetchPlayer(ul)
              THEN /\ CallFetch("plr", ul)
                   /\ UNCHANGED <<visited, all_data, per_game, calls, i>>
              ELSE /\ FinishEvent(cd, ul, "nouser")
                   /\ UNCHANGED <<visited, fetch_log>>

\* lines 329-348, the all-sections document has come back
AfterAllSections ==
    /\ pc = "fetch" /\ f.status = "returned" /\ f.role = "zero"
    /\ UNCHANGED <<max_retries, filter_year, events, csv, visited>>
    /\ LET cd == [data EXCEPT !.summary = MergeSummary(@, parse_summary_table(f.body))]
           ul == UserLinkIn(f.body.hrefs)
       IN  /\ data' = cd
           /\ userlink' = ul
           /\ IF FetchPlayer(ul)
              THEN /\ CallFetch("plr", ul)
                   /\ UNCHANGED <<all_data, per_game, calls, i>>
              ELSE /\ FinishEvent(cd, ul, "nouser")
                   /\ UNCHANGED fetch_log

\* lines 342-348, the player page has come back
AfterPlayer ==
    /\ pc = "fetch" /\ f.status = "returned" /\ f.role = "plr"
    /\ UNCHANGED <<max_retries, filter_year, events, csv, visited, userlink, fetch_log>>
    /\ LET parsed == parse_player_specific_page(f.body.page)
           cd == [data EXCEPT !.player_games = parsed.games,
                              !.player_rating_pre = parsed.player_pre_rating,
                              !.player_rating_post = parsed.player_post_rating]
       IN  /\ data' = cd
           /\ FinishEvent(cd, userlink, "player")

\* a faulty PropagateError: the error is swallowed and the caller gets the
\* empty string
SwallowError ==
    /\ pc = "fetch" /\ f.status = "raised"
    /\ f' = [f EXCEPT !.status = "returned", !.body = EmptyBody]
    /\ UNCHANGED <<max_retries, filter_year, pc, events, i, visited, all_data,
                   per_game, data, userlink, csv, fetch_log, calls>>

\* lines 53, 57: the error leaves fetch_html; neither parse_crosstable nor
\* main catches it, and the process ends
PropagateError ==
    /\ pc = "fetch" /\ f.status = "raised"
    /\ pc' = "aborted"
    /\ UNCHANGED <<max_retries, filter_year, f, events, i, visited, all_data,
                   per_game, data, userlink, csv, fetch_log, calls>>

\* lines 446-447
CsvRow(g) ==
    [g EXCEPT !.opp_rating_pre = StripRPrefix(@), !.opp_rating_post = StripRPrefix(@)]

\* lines 434-454: the loop is over and the CSV file is written
WriteCsv ==
    /\ pc = "loop" /\ i > Len(events)
    /\ csv' = [written |-> TRUE,
               rows |-> [k \in 1..Len(per_game) |-> CsvRow(per_game[k])]]
    /\ pc' = "done"
    /\ UNCHANGED <<max_retries, filter_year, f, events, i, visited, all_data,
                   per_game, data, userlink, fetch_log, calls>>

(***************************************************************************)
(* The extractor on its own: a page arrives, it is parsed once.            *)
(***************************************************************************)
VARIABLES gpc, page, ret

gvars == <<gpc, page, ret>>

vars == <<rvars, gvars>>

NoRet == [player_pre_rating |-> "", player_post_rating |-> "", games |-> <<>>]

\* the extractor at rest, for the run
GIdle ==
    /\ gpc = "idle"
    /\ page = EmptyPage
    /\ ret = NoRet

\* the run at rest, for the extractor
RIdle ==
    /\ max_retries = 0 /\ filter_year = "" /\ pc = "idle" /\ f = NoCall
    /\ events = <<>> /\ i = 1 /\ visited = {} /\ all_data = <<>> /\ per_game = <<>>
    /\ data = EmptyData /\ userlink = NoLink /\ csv = NoCsv /\ fetch_log = <<>>
    /\ calls = <<>>

GInit ==
    /\ gpc = "parse"
    /\ \/ page = EmptyPage
       \/ \E n \in 1..MaxRows, k \in 0..MaxNested :
             \E a \in Arrangements(n, k), mt \in [1..n -> BOOLEAN] :
                page = GamesPage(NestedTable(n, a, mt))
       \/ \E pr \in ProbeRows : page = GamesPage(RowTable(pr))
    /\ ret = NoRet
    /\ RIdle

ParsePlayerPage ==
    /\ gpc = "parse"
    /\ ret' = parse_player_specific_page(page)
    /\ gpc' = "done"
    /\ UNCHANGED <<page, rvars>>

GNext == ParsePlayerPage

SpecGames == GInit /\ [][GNext]_vars

Init == RInit /\ GIdle

Next ==
    \/ (StartMain /\ UNCHANGED gvars)
    \/ (AttemptSucceeds /\ UNCHANGED gvars)
    \/ (AttemptFails /\ UNCHANGED gvars)
    \/ (LoopFallsThrough /\ UNCHANGED gvars)
    \/ (AfterHistory /\ UNCHANGED gvars)
    \/ (LoopEvent /\ UNCHANGED gvars)
    \/ (AfterCrosstable /\ UNCHANGED gvars)
    \/ (AfterAllSections /\ UNCHANGED gvars)
    \/ (AfterPlayer /\ UNCHANGED gvars)
    \/ (PropagateError /\ UNCHANGED gvars)
    \/ (WriteCsv /\ UNCHANGED gvars)

Spec == Init /\ [][Next]_vars

(***************************************************************************)
(* Properties of the run.                                                  *)
(***************************************************************************)
CrossFetches == {a \in 1..Len(fetch_log) : fetch_log[a].role \in {"xtbl", "zero"}}

\* C1: in a run, no cross-reference link (an event's own link or a derived
\* ".0" variant) is passed to fetch_html twice by parse_crosstable.
C1_NoLinkFetchedTwice ==
    \A a, b \in CrossFetches : fetch_log[a].url = fetch_log[b].url => a = b

\* C1 happens: a variant was fetched for one event, and a later event whose
\* own link is that variant was not fetched again
C1_Witness ==
    /\ pc = "done"
    /\ \E k \in 1..Len(calls), a \in CrossFetches :
          /\ calls[k].how = "visited"
          /\ fetch_log[a].role = "zero"
          /\ fetch_log[a].url = events[k].xlink

\* C2: fetch_html makes at most max_retries attempts and none after a
\* success, returns only with the body of a successful attempt, and raises
\* the last error when every attempt failed.
C2_FetchContract ==
    /\ Len(f.outcomes) <= max_retries
    /\ \A k \in 1..(Len(f.outcomes) - 1) : f.outcomes[k] # "ok"
    /\ f.status = "returned" =>
          /\ f.outcomes # <<>>
          /\ f.outcomes[Len(f.outcomes)] = "ok"
    /\ f.status = "raised" =>
          /\ f.outcomes # <<>>
          /\ \A k \in 1..Len(f.outcomes) : f.outcomes[k] # "ok"
          /\ f.err = f.outcomes[Len(f.outcomes)]

\* C3: once fetch_html has raised, the run ends there: no later event is
\* parsed, no fetch is made, and no CSV row is written.
C3_ErrorAborts ==
    [][(f.status = "raised" \/ pc = "aborted") =>
          /\ pc' = "aborted"
          /\ ~csv'.written
          /\ all_data' = all_data /\ per_game' = per_game /\ calls' = calls
          /\ fetch_log' = fetch_log /\ i' = i]_vars

\* C3 happens: the first event gave a row and a game, the fetch of the
\* second event's player page failed, and nothing was written
C3_Witness ==
    /\ pc = "aborted"
    /\ f.role = "plr"
    /\ i = 2
    /\ Len(all_data) = 1
    /\ per_game # <<>>
    /\ ~csv.written

RECURSIVE GamesReturned(_)
GamesReturned(cs) ==
    IF cs = <<>> THEN 0
    ELSE Len(Head(cs).cdata.player_games) + GamesReturned(Tail(cs))

\* C4: a run in which no fetch fails ends with one row per event of the
\* filtered list, in the order of the list, whatever happened to the event;
\* an event with no user link resolved has its row, with the summary fields,
\* and no game record.
C4_OneRowPerEvent ==
    pc = "done" =>
        /\ Len(all_data) = Len(events)
        /\ Len(calls) = Len(events)
        /\ \A k \in 1..Len(events) :
              /\ all_data[k].end_date = events[k].end_date
              /\ all_data[k].event_id = events[k].event_id
              /\ filter_year # "" => events[k].end_date[1] = filter_year
              /\ all_data[k].location = Get(calls[k].cdata.summary, "location")
              /\ all_data[k].event_dates = Get(calls[k].cdata.summary, "event date(s)")
              /\ all_data[k].chief_td = Get(calls[k].cdata.summary, "chief td")
              /\ calls[k].userlink = NoLink => calls[k].cdata.player_games = <<>>
        /\ Len(per_game) = GamesReturned(calls)

\* C4 happens: of two events, one found no user link and still has a row
\* with a location, the other has a game
C4_Witness ==
    /\ pc = "done"
    /\ Len(events) = 2
    /\ \E k, m \in 1..Len(calls) :
          /\ calls[k].how = "nouser"
          /\ all_data[k].location # ""
          /\ calls[m].how = "player"
          /\ calls[m].cdata.player_games # <<>>

EnteredVisited ==
    /\ pc = "loop" /\ i <= Len(events)
    /\ events[i].xlink # NoLink
    /\ events[i].xlink \in visited

\* C8: parse_crosstable entered with a link that is in the visited set
\* returns the empty result, fetches nothing and leaves the set as it was.
C8_VisitedReturnsEmpty ==
    [][EnteredVisited =>
          /\ data' = EmptyData
          /\ calls' = Append(calls, [how |-> "visited", cdata |-> EmptyData,
                                     userlink |-> NoLink])
          /\ fetch_log' = fetch_log
          /\ visited' = visited
          /\ pc' = "loop"]_vars

\* C8 happens: an event was returned empty because its link was visited
C8_Witness ==
    \E k \in 1..Len(calls) :
        /\ calls[k].how = "visited"
        /\ events[k].xlink \in visited
        /\ all_data[k].location = ""

\* the ".0" all-sections link of a crosstable link, sectioned or not
AllSectionsVariant(xlink) == [xlink EXCEPT !.sec = ".0"]

XtblBack == pc = "fetch" /\ f.status = "returned" /\ f.role = "xtbl"

ZeroBack == pc = "fetch" /\ f.status = "returned" /\ f.role = "zero"

\* the step calls fetch_html for the variant
ZeroFetched ==
    fetch_log' = Append(fetch_log, [url |-> AllSectionsVariant(events[i].xlink),
                                    role |-> "zero", ev |-> i])

\* the summary after the merge: the variant's value on its keys, the
\* crosstable's on the others
MergedInto(after, before, summ2) ==
    /\ DOMAIN after = DOMAIN before \cup DOMAIN summ2
    /\ \A k \in DOMAIN summ2 : after[k] = summ2[k]
    /\ \A k \in DOMAIN before \ DOMAIN summ2 : after[k] = before[k]

\* what a fetch of the variant brings with it
VariantHandled ==
    /\ XtblBack =>
          (ZeroFetched => visited' = visited \cup {AllSectionsVariant(events[i].xlink)})
    /\ ZeroBack =>
          /\ MergedInto(data'.summary, data.summary, parse_summary_table(f.body))
          /\ userlink' = UserLinkIn(f.body.hrefs)

\* C9 as stated: the variant is fetched exactly when the crosstable has no
\* link to the player's page and the variant is not in the visited set; it is
\* then added to the set, its summary merged over the event's, and the user
\* link searched in it.
C9_VariantFetchedWhenUnvisited ==
    [][/\ XtblBack =>
            (ZeroFetched <=>
                /\ UserLinkIn(f.body.hrefs) = NoLink
                /\ AllSectionsVariant(events[i].xlink) \notin visited)
       /\ VariantHandled]_vars

\* C9 amended: the variant is fetched exactly when the crosstable has no
\* link to the player's page, the event's link is XtblMain.php?<event>-<player>
\* with no section marker, and the variant is not in the visited set; it is
\* then added to the set, its summary merged over the event's, and the user
\* link searched in it.
C9_VariantFetchedWhenDerivable ==
    [][/\ XtblBack =>
            (ZeroFetched <=>
                /\ UserLinkIn(f.body.hrefs) = NoLink
                /\ events[i].xlink.page = "XtblMain.php"
                /\ events[i].xlink.sec = ""
                /\ AllSectionsVariant(events[i].xlink) \notin visited)
       /\ VariantHandled]_vars

\* C9 happens: the variant was fetched, its location replaced the
\* crosstable's, the crosstable's chief td stayed, and the user link was
\* found in the variant
C9_Witness ==
    /\ \E a \in 1..Len(fetch_log) :
          fetch_log[a].role = "zero" /\ fetch_log[a].ev = i /\ fetch_log[a].url \in visited
    /\ pc = "fetch" /\ f.role = "plr"
    /\ Get(data.summary, "location") = "RENO, NV"
    /\ Get(data.summary, "chief td") = "A TD"
    /\ userlink # NoLink

\* the roles of the fetches made for event k, in order
Segment(k) ==
    LET s == SelectSeq(fetch_log, LAMBDA e : e.ev = k)
    IN  [a \in 1..Len(s) |-> s[a].role]

SegmentShapes ==
    { <<>>, <<"xtbl">>, <<"xtbl", "zero">>, <<"xtbl", "plr">>, <<"xtbl", "zero", "plr">> }

HasPlayerFetch(k) == \E a \in 1..Len(Segment(k)) : Segment(k)[a] = "plr"

\* C10: the fetch log is the history fetch, then one segment per event in
\* event order; a segment is empty (the event was skipped) or the crosstable,
\* then possibly the variant, then possibly one player page, and the player
\* page is fetched exactly when a user link was resolved.
C10_FetchLogShape ==
    /\ fetch_log # <<>> => fetch_log[1].role = "history"
    /\ \A a \in 2..Len(fetch_log) :
          /\ fetch_log[a].role # "history"
          /\ fetch_log[a].ev \in 1..Len(events)
          /\ fetch_log[a - 1].ev <= fetch_log[a].ev
    /\ \A k \in 1..Len(events) : Segment(k) \in SegmentShapes
    /\ \A k \in 1..Len(calls) :
          /\ HasPlayerFetch(k) <=> calls[k].userlink # NoLink
          /\ Segment(k) = <<>> <=> calls[k].how \in {"nolink", "visited"}
    /\ (pc = "fetch" /\ f.role # "history") =>
          (HasPlayerFetch(i) <=> userlink # NoLink)

\* C10 happens: the first event took all three fetches, the second was
\* skipped
C10_Witness ==
    /\ pc = "done"
    /\ Len(events) = 2
    /\ Segment(1) = <<"xtbl", "zero", "plr">>
    /\ Segment(2) = <<>>

(***************************************************************************)
(* Properties of the game-table extractor.                                 *)
(***************************************************************************)
SingleLetters == {<<"W">>, <<"L">>, <<"D">>, <<"H">>}

\* C5: every game record parse_games_in_table returns has a result that is
\* exactly one of "W", "L", "D", "H": upper case, trailing digits removed.
C5_ResultIsOneLetter ==
    gpc = "done" => \A j \in 1..Len(ret.games) : ret.games[j].result \in SingleLetters

\* the rows of the Games table that are not rows of the outer table itself
NestedRows(T) == {r \in 1..Len(T.rows) : T.rows[r].owner # 0}

MatchingRows(T, rs) == {r \in rs : RowIsGame(T.rows[r].cells)}

OuterFindsNone(T) == MatchingRows(T, (1..Len(T.rows)) \ NestedRows(T)) = {}

Occurrences(games, g) == Cardinality({j \in 1..Len(games) : games[j] = g})

\* C6: when the outer Games table has no matching row of its own and the
\* tables nested in it hold N matching rows, the page yields exactly N
\* records, one for each of those rows, however the tables are nested.
C6_NestedRowsOnce ==
    (gpc = "done" /\ page.has_games /\ OuterFindsNone(page.table)) =>
        /\ Len(ret.games) = Cardinality(MatchingRows(page.table, NestedRows(page.table)))
        /\ \A r \in MatchingRows(page.table, NestedRows(page.table)) :
              Occurrences(ret.games, GameOf(page.table.rows[r].cells)) = 1

\* C6 happens: two matching rows, one of them in a table nested in a nested
\* table, and none in the outer table
C6_Witness ==
    /\ gpc = "done"
    /\ page.has_games
    /\ OuterFindsNone(page.table)
    /\ Len(page.table.host) = 2
    /\ page.table.rows[page.table.host[2]].owner = 1
    /\ Cardinality(MatchingRows(page.table, NestedRows(page.table))) = 2
    /\ \E r \in MatchingRows(page.table, NestedRows(page.table)) :
          page.table.rows[r].owner = 2
    /\ Len(ret.games) = 2

\* the filler cell as the documentation describes it: width 1, rowspan 20
DocumentedFiller(c) == c.width = <<"1">> /\ c.rowspan = <<"2", "0">>

\* one letter of W, L, D, H in either case, then optionally digits
DocumentedPattern(s) ==
    /\ s # <<>>
    /\ s[1] \in ResultLetters
    /\ \A j \in 1..Len(DropLeadingSpaces(Tail(s))) :
          DropLeadingSpaces(Tail(s))[j] \in DigitChars

DocumentedGate(tds) ==
    LET cols == SelectSeq(tds, LAMBDA c : ~DocumentedFiller(c))
    IN  /\ Len(cols) = 6
        /\ DocumentedPattern(CellText(cols[1]))

\* C7: a row yields a game record exactly when, with the cells of width 1
\* and rowspan 20 dropped, 6 columns remain and column 0 is a result letter
\* optionally followed by digits; any other row yields none and the rows
\* after it are still read.
C7_RowGate ==
    (gpc = "done" /\ page.has_games) =>
        LET T    == page.table
            took == GameRowsIn(T, find_all_tr(T, 0))
        IN  /\ \A r \in 1..Len(T.rows) :
                  (\E j \in 1..Len(took) : took[j] = r) <=> DocumentedGate(T.rows[r].cells)
            /\ Len(ret.games) = Cardinality({r \in 1..Len(T.rows) : DocumentedGate(T.rows[r].cells)})

\* the rows one invocation on table t takes as games
RowsTaken(T, t) == GameRowsIn(T, find_all_tr(T, t))

\* the matching rows that are direct children of table t
DirectMatchingRows(T, t) ==
    {r \in 1..Len(T.rows) : T.rows[r].owner = t /\ RowIsGame(T.rows[r].cells)}

\* C11: one invocation of parse_games_in_table on a table reads only the
\* rows that are direct children of that table: a matching row of a table
\* nested in it gives no record to that invocation.
C11_DirectRowsOnly ==
    (gpc = "done" /\ page.has_games) =>
        /\ \A t \in 0..Len(page.table.host) :
              /\ \A a \in 1..Len(RowsTaken(page.table, t)) :
                    page.table.rows[RowsTaken(page.table, t)[a]].owner = t
              /\ Len(parse_games_in_table(page.table, t)) =
                    Cardinality(DirectMatchingRows(page.table, t))
        /\ DirectMatchingRows(page.table, 0) # {} =>
              Len(ret.games) = Cardinality(DirectMatchingRows(page.table, 0))

====
